---------------------------- MODULE Spec2Model ----------------------------
(***************************************************************************)
(* A model of shareabouts/models.py: the Model / Collection layer of the   *)
(* Shareabouts API client (identity map, pagination, save routing, URL     *)
(* derivation and the GeoJSON shaped place).                               *)
(*                                                                         *)
(* Python values are tagged records, so that an int and a str are never    *)
(* confused: Num(42) is the int 42, Txt("42") the str '42', Map(d) a       *)
(* nested dict, None the None object.  A dict is a function from keys      *)
(* (strings) to values.  A URL is the sequence of its tokens, "/" being a  *)
(* token of its own, so that str concatenation is \o and endswith('/') is  *)
(* a test of the last token.                                               *)
(***************************************************************************)
EXTENDS Integers, Sequences, FiniteSets, TLC

VARIABLES
    ctype,       \* the _model_class of the collection under study
    models,      \* the parent chain: one Model's _data per resource type
    attached,    \* per resource type: whether that Model has a collection
    heap,        \* the Model instances made by the collection: ref -> _data
    cdata,       \* ShareaboutsCollection._data: sequence of refs
    data_by_id,  \* ShareaboutsCollection._data_by_id: key -> ref
    page_count,  \* ShareaboutsCollection.page_count
    calls,       \* the gateway calls issued by the last operation
    ret,         \* what the last operation returned or raised
    gen,         \* the fetch_all generator: its position and its events
    npages,      \* the server's chain of pages has this many pages
    arrivals     \* the primary keys the server has sent, in order of first arrival

vars == <<ctype, models, attached, heap, cdata, data_by_id, page_count,
          calls, ret, gen, npages, arrivals>>

(***************************************************************************)
(* Bounds of the model.                                                    *)
(***************************************************************************)
MaxObjs == 2
MaxPages == 3
MaxLength == 3
MaxItems == 2

(***************************************************************************)
(* Values.                                                                 *)
(***************************************************************************)
None == [t |-> "none"]
Txt(s) == [t |-> "str", s |-> s]
Num(n) == [t |-> "int", n |-> n]
Map(d) == [t |-> "map", d |-> d]
EmptyDict == [k \in {} |-> None]

Types == {"account", "dataset", "place", "submission"}

\* dict.update(other): other's entries win, the rest is kept
DictUpdate(d, other) ==
    [k \in DOMAIN d \cup DOMAIN other |->
        IF k \in DOMAIN other THEN other[k] ELSE d[k]]

\* del d[k] for every k of ks that d holds
DictWithout(d, ks) == [k \in DOMAIN d \ ks |-> d[k]]

\* dict.get(key, None)
DictGet(d, k) == IF k \in DOMAIN d THEN d[k] ELSE None

\* the text of a key
KeyText(v) == IF v.t = "int" THEN ToString(v.n) ELSE v.s

Ok(v) == [exc |-> "none", val |-> v]
Raise(e) == [exc |-> e, val |-> None]

(***************************************************************************)
(* Per class attributes.                                                   *)
(***************************************************************************)
pk_attr(type) ==
    CASE type = "account" -> "username"
      [] type = "dataset" -> "slug"
      [] OTHER -> "id"

excluded_fields(type) ==
    IF type \in {"place", "submission"}
    THEN {"id", "created_datetime", "updated_datetime", "dataset"}
    ELSE {"id", "created_datetime", "updated_datetime"}

results_attr(type) == IF type = "place" THEN "features" ELSE "results"

GeoKeys == {"geometry", "id"}

(***************************************************************************)
(* The dictionary interface of a Model.  A place routes by key name; the   *)
(* other classes use _data.  `key in model` has no __contains__ to call    *)
(* and so runs __iter__ until the key shows up.                            *)
(***************************************************************************)
\* the keys __iter__ can yield, or the exception it ends with
ModelContains(type, d, key) ==
    IF type # "place" THEN Ok(key \in DOMAIN d)
    ELSE IF key \in GeoKeys /\ key \in DOMAIN d THEN Ok(TRUE)
    ELSE IF "properties" \notin DOMAIN d THEN Raise("KeyError")
    ELSE IF d["properties"].t # "map" THEN Raise("TypeError")
    ELSE Ok(key \in DOMAIN d["properties"].d \ GeoKeys)

\* model[key]
ModelGetItem(type, d, key) ==
    IF type # "place" \/ key \in GeoKeys
    THEN IF key \in DOMAIN d THEN Ok(d[key]) ELSE Raise("KeyError")
    ELSE IF "properties" \notin DOMAIN d THEN Raise("KeyError")
    ELSE IF d["properties"].t # "map" THEN Raise("TypeError")
    ELSE IF key \in DOMAIN d["properties"].d
         THEN Ok(d["properties"].d[key]) ELSE Raise("KeyError")

\* model.get(key)
ModelGet(type, d, key) ==
    IF type # "place" \/ key \in GeoKeys THEN Ok(DictGet(d, key))
    ELSE IF "properties" \notin DOMAIN d THEN Raise("KeyError")
    ELSE IF d["properties"].t # "map" THEN Raise("TypeError")
    ELSE Ok(DictGet(d["properties"].d, key))

\* model.key(): get(_pk_attr), and get('id') for a place or a submission
ModelKey(type, d) == ModelGet(type, d, pk_attr(type))

\* model.has_key()
has_key(type, d) == ModelContains(type, d, pk_attr(type))

(***************************************************************************)
(* URLs.                                                                   *)
(***************************************************************************)
uri_root == <<"root", "/">>

EndsWithSlash(u) == Len(u) > 0 /\ u[Len(u)] = "/"

\* ''.join([collection_url, key]) or '/'.join([collection_url, key])
JoinKey(collection_url, key) ==
    IF key.t # "str" THEN Raise("TypeError")
    ELSE IF EndsWithSlash(collection_url) THEN Ok(collection_url \o <<key.s>>)
    ELSE Ok(collection_url \o <<"/", key.s>>)

\* ShareaboutsModel.url(), given the result of collection.url()
ModelUrl(type, d, hasCollection, collection_url) ==
    LET hasUrl == ModelContains(type, d, "url") IN
    IF hasUrl.exc # "none" THEN hasUrl
    ELSE IF hasUrl.val THEN
        LET u == ModelGetItem(type, d, "url") IN
        IF u.exc # "none" THEN u ELSE Ok(<<u.val.s>>)
    ELSE IF ~hasCollection THEN Raise("ShareaboutsApiException")
    ELSE LET hasPk == ModelContains(type, d, pk_attr(type)) IN
         IF hasPk.exc # "none" THEN hasPk
         ELSE IF ~hasPk.val THEN Raise("ShareaboutsApiException")
         ELSE IF collection_url.exc # "none" THEN collection_url
         ELSE LET k == ModelKey(type, d) IN
              IF k.exc # "none" THEN k
              ELSE JoinKey(collection_url.val, k.val)

\* parent.url() + suffix
UrlPlus(parent_url, suffix) ==
    IF parent_url.exc # "none" THEN parent_url
    ELSE Ok(parent_url.val \o suffix)

AccountSetUrl == Ok(uri_root)
AccountUrl == ModelUrl("account", models["account"], attached["account"], AccountSetUrl)
DatasetSetUrl == UrlPlus(AccountUrl, <<"/", "datasets">>)
DatasetUrl == ModelUrl("dataset", models["dataset"], attached["dataset"], DatasetSetUrl)
PlaceSetUrl == UrlPlus(DatasetUrl, <<"/", "places">>)
PlaceUrl == ModelUrl("place", models["place"], attached["place"], PlaceSetUrl)
SubmissionSetUrl == UrlPlus(PlaceUrl, <<"/", "comments">>)
SubmissionUrl ==
    ModelUrl("submission", models["submission"], attached["submission"], SubmissionSetUrl)

\* collection.url() of the collection that holds the Models of a type
CollectionUrl(type) ==
    CASE type = "account" -> AccountSetUrl
      [] type = "dataset" -> DatasetSetUrl
      [] type = "place" -> PlaceSetUrl
      [] type = "submission" -> SubmissionSetUrl

\* model.url() of the chain's Model of a type
ChainUrl(type) ==
    CASE type = "account" -> AccountUrl
      [] type = "dataset" -> DatasetUrl
      [] type = "place" -> PlaceUrl
      [] type = "submission" -> SubmissionUrl

(***************************************************************************)
(* The state before any operation.  The chain of parents of the            *)
(* collection under study is api.account('alice').dataset('foo') and a     *)
(* place of it as the server serves it (an int id, a url under             *)
(* properties).                                                            *)
(***************************************************************************)
ChainModels ==
    [account |-> [username |-> Txt("alice")],
     dataset |-> [slug |-> Txt("foo")],
     place |-> [id |-> Num(42), properties |-> Map([url |-> Txt("place-url")])],
     submission |-> [id |-> Txt("7")]]

NoGen == [pc |-> "none", url |-> None, page_url |-> None, exc |-> "none",
          events |-> <<>>]
NoRet == [op |-> "init", arg |-> None, exc |-> "none", val |-> None]

InitCollection ==
    /\ heap = <<>>
    /\ cdata = <<>>
    /\ data_by_id = EmptyDict
    /\ page_count = -1
    /\ calls = <<>>
    /\ ret = NoRet
    /\ gen = NoGen
    /\ arrivals = <<>>

(***************************************************************************)
(* The collection: _make_inst, _id_of, get, add, update.  The three        *)
(* fields that add touches travel together as a record.                    *)
(***************************************************************************)
Coll == [heap |-> heap, cdata |-> cdata, data_by_id |-> data_by_id]

\* _id_of(data): data.get(pk_attr, None)
id_of(type, data) == DictGet(data, pk_attr(type))

\* get(key): the instance under key, or None (ref 0)
CollGetMiss(c, key) == 0

CollGet(c, key) == IF key \in DOMAIN c.data_by_id THEN c.data_by_id[key] ELSE 0

\* the registration of a new instance: if inst_id is not None
Register(m, inst_id, ref) ==
    IF inst_id # None THEN (inst_id :> ref) @@ m ELSE m

\* add(inst_data): the collection afterwards, and the instance returned
CollAdd(type, c, inst_data) ==
    LET inst_id == id_of(type, inst_data)
        inst == CollGet(c, inst_id)
    IN  IF inst # 0
        THEN [heap |-> [c.heap EXCEPT ![inst] = DictUpdate(@, inst_data)],
              cdata |-> c.cdata,
              data_by_id |-> c.data_by_id,
              inst |-> inst]
        ELSE LET new == Len(c.heap) + 1 IN
             [heap |-> Append(c.heap, inst_data),
              cdata |-> Append(c.cdata, new),
              data_by_id |-> Register(c.data_by_id, inst_id, new),
              inst |-> new]

\* update(collection_data): add, element by element
RECURSIVE CollUpdateReversed(_, _, _)
CollUpdateReversed(type, c, collection_data) ==
    IF collection_data = <<>> THEN c
    ELSE CollAdd(type, CollUpdateReversed(type, c, Tail(collection_data)),
                 Head(collection_data))

RECURSIVE CollUpdate(_, _, _)
CollUpdate(type, c, collection_data) ==
    IF collection_data = <<>> THEN c
    ELSE CollUpdate(type, CollAdd(type, c, Head(collection_data)),
                    Tail(collection_data))

(***************************************************************************)
(* Raw data.  Keys are usernames, slugs, or the ids the server numbers     *)
(* places and submissions with; a place is a GeoJSON feature.              *)
(***************************************************************************)
KeyOf(type, n) ==
    CASE type = "account" -> Txt("user" \o ToString(n))
      [] type = "dataset" -> Txt("slug" \o ToString(n))
      [] OTHER -> Num(n)

Keys(type) == {KeyOf(type, 1), KeyOf(type, 2)}

Fields(type, v) ==
    IF type = "place" THEN [properties |-> Map([name |-> v])] ELSE [name |-> v]

Keyed(type, k, v) == (pk_attr(type) :> k) @@ Fields(type, v)

Names == {Txt("a"), Txt("b")}

\* what callers hand to add, update and create
LocalItems(type) ==
    {Keyed(type, k, v) : k \in Keys(type), v \in Names}
      \cup {Fields(type, v) : v \in Names}

SeqsUpTo(S, n) == UNION {[1..m -> S] : m \in 0..n}

Add(inst_data) ==
    LET r == CollAdd(ctype, Coll, inst_data) IN
    /\ Len(r.heap) <= MaxObjs
    /\ heap' = r.heap
    /\ cdata' = r.cdata
    /\ data_by_id' = r.data_by_id
    /\ calls' = <<>>
    /\ ret' = [op |-> "add", arg |-> inst_data, exc |-> "none", val |-> r.inst]
    /\ UNCHANGED <<ctype, models, attached, page_count, gen, npages, arrivals>>

Update(collection_data) ==
    LET r == CollUpdate(ctype, Coll, collection_data) IN
    /\ Len(r.heap) <= MaxObjs
    /\ heap' = r.heap
    /\ cdata' = r.cdata
    /\ data_by_id' = r.data_by_id
    /\ calls' = <<>>
    /\ ret' = [op |-> "update", arg |-> None, exc |-> "none", val |-> None]
    /\ UNCHANGED <<ctype, models, attached, page_count, gen, npages, arrivals>>

InitChain(types, pages) ==
    /\ ctype \in types
    /\ npages \in pages
    /\ models = ChainModels
    /\ attached = [type \in Types |-> TRUE]
    /\ InitCollection

(***************************************************************************)
(* SpecAdd: any sequence of add and update calls on a new collection.      *)
(***************************************************************************)
InitAdd == InitChain(Types, {1})

NextAdd ==
    \/ \E inst_data \in LocalItems(ctype) : Add(inst_data)
    \/ \E collection_data \in SeqsUpTo(LocalItems(ctype), MaxItems) :
          Update(collection_data)

SpecAdd == InitAdd /\ [][NextAdd]_vars

\* the members of the sequence whose _data holds primary key k
Holders(k) == {i \in 1..Len(cdata) : id_of(ctype, heap[cdata[i]]) = k}
HeldKeys == {id_of(ctype, heap[cdata[i]]) : i \in 1..Len(cdata)} \ {None}

\* C1 (state part): under add/update alone, every primary key that arrived
\* is held by exactly one member of the sequence, and the identity map
\* names that member under the key.
C1_OneModelPerKey ==
    /\ \A k \in HeldKeys :
          /\ Cardinality(Holders(k)) = 1
          /\ k \in DOMAIN data_by_id
          /\ \A i \in Holders(k) : cdata[i] = data_by_id[k]
    /\ DOMAIN data_by_id = HeldKeys

\* C1 (step part): the first add with key k appends a new Model and
\* registers it; a later add with key k returns the Model already held,
\* with the raw data merged into it, and leaves the sequence alone.
C1_AddStep ==
    (ret'.op = "add" /\ id_of(ctype, ret'.arg) # None) =>
        LET k == id_of(ctype, ret'.arg) IN
        IF Holders(k) = {}
        THEN /\ cdata' = Append(cdata, ret'.val)
             /\ ret'.val = Len(heap) + 1
             /\ heap' = Append(heap, ret'.arg)
             /\ data_by_id'[k] = ret'.val
        ELSE /\ cdata' = cdata
             /\ \E i \in Holders(k) : ret'.val = cdata[i]
             /\ Len(heap') = Len(heap)
             /\ \A r \in 1..Len(heap) :
                   heap'[r] = IF r = ret'.val
                              THEN DictUpdate(heap[r], ret'.arg) ELSE heap[r]

C1_IdentityDedup == []C1_OneModelPerKey /\ [][C1_AddStep]_vars

\* a key has been added twice: the second add found the first one's Model
C1_Witness ==
    /\ ret.op = "add" /\ id_of(ctype, ret.arg) # None
    /\ Len(cdata) >= 2
    /\ ret.val = cdata[1]
    /\ heap[ret.val] = ret.arg
    /\ \E k \in Keys(ctype) : ret.arg = Keyed(ctype, k, Txt("b"))

(***************************************************************************)
(* The gateway and the server.  send_and_parse raises unless the status    *)
(* is one of the valid ones.  The server keeps a chain of npages pages:    *)
(* page 1 is at the collection's URL, page i at the cursor PageCursor(i)   *)
(* (a URL of the server's own making, with a query component),             *)
(* and a page's envelope is framed as the wire format frames it: the       *)
(* items of places under 'features', all others under 'results'.           *)
(***************************************************************************)
Url(u) == [t |-> "url", u |-> u]

PageToken(i) == "page=" \o ToString(i)
PageCursor(i) == Url(<<"server", "?", PageToken(i)>>)

\* the page a request addresses
ServedPage(full_url) ==
    IF \E i \in 2..npages : \E j \in 1..Len(full_url) : full_url[j] = PageToken(i)
    THEN CHOOSE i \in 2..npages : \E j \in 1..Len(full_url) : full_url[j] = PageToken(i)
    ELSE 1

WireFrame(type) == IF type = "place" THEN "features" ELSE "results"

Envelope(type, metadata, items) ==
    ("metadata" :> metadata) @@ (WireFrame(type) :> items)

\* a resource as the server serves it: with its primary key, its url and
\* its timestamp, a place as a GeoJSON feature
ServerRecord(type, k, v) ==
    LET fields == [name |-> v, url |-> Txt("url-of-" \o KeyText(k)),
                   created_datetime |-> Txt("t")]
    IN  IF type = "place" THEN [id |-> k, properties |-> Map(fields)]
        ELSE (pk_attr(type) :> k) @@ fields

ServerItems(type) == {ServerRecord(type, k, Txt("a")) : k \in Keys(type)}

\* the envelopes of page i of the chain: the cursors and the page number
\* are the chain's, the items are the server's to choose
ChainEnvelopes(type, i) ==
    LET metadata == [next |-> IF i < npages THEN PageCursor(i + 1) ELSE None,
                     previous |-> IF i > 1 THEN PageCursor(i - 1) ELSE None,
                     page |-> i, length |-> MaxLength]
    IN  {Envelope(type, metadata, items) :
            items \in SeqsUpTo(ServerItems(type), MaxItems)}

\* any envelope of the wire format: every combination of cursors, page
\* number, length and page size
AnyEnvelopes(type) ==
    LET one == CHOOSE item \in ServerItems(type) : TRUE
        cursor == PageCursor(2)
    IN  {Envelope(type, [next |-> n, previous |-> p, page |-> pg, length |-> len],
                  [j \in 1..size |-> one]) :
            n \in {None, cursor}, p \in {None, cursor},
            pg \in 1..MaxPages, len \in 0..MaxLength, size \in 0..MaxItems}

\* a server of a single page, which holds at most the resource of the
\* first key
SinglePage(type) ==
    {Envelope(type, [next |-> None, previous |-> None, page |-> 1, length |-> size],
              [j \in 1..size |-> ServerRecord(type, KeyOf(type, 1), Txt("a"))]) :
        size \in 0..1}

\* what a server may answer for page i
Envelopes(server, type, i) ==
    CASE server = "chain" -> ChainEnvelopes(type, i)
      [] server = "any" -> AnyEnvelopes(type)
      [] OTHER -> SinglePage(type)

Truthy(v) == v.t # "none"

\* send_and_parse: the valid statuses of a call decide
GatewayCall(method, url, body, valid, status) ==
    [method |-> method, url |-> url, body |-> body, valid |-> valid,
     status |-> status]

(***************************************************************************)
(* parse_page_count, parse, fetch.                                         *)
(***************************************************************************)
\* int(math.ceil(length / size)), true division
FloorDiv(length, size) == length \div size

CeilDiv(length, size) == (length + size - 1) \div size

parse_page_count(type, raw_data, old) ==
    IF "metadata" \notin DOMAIN raw_data \/ results_attr(type) \notin DOMAIN raw_data
    THEN [exc |-> "AssertionError", val |-> old]
    ELSE LET metadata == raw_data["metadata"]
             results == raw_data[results_attr(type)]
         IN  IF Truthy(metadata.next) /\ Len(results) > 0
             THEN Ok(CeilDiv(metadata.length, Len(results)))
             ELSE IF ~Truthy(metadata.previous) THEN Ok(1)
             ELSE Ok(metadata.page)

\* the URL fetch requests: the querystring after '?' or after '&'
FullUrl(url, querystring) ==
    IF \A j \in 1..Len(url) : url[j] # "?"
    THEN url \o <<"?">> \o querystring
    ELSE url \o <<"&">> \o querystring

\* fetch(url, **options) answered with a status and an envelope: the
\* collection, page_count, the call and the result afterwards
CollFetch(type, c, old_count, url, querystring, status, raw_data) ==
    LET own == CollectionUrl(type)
        unchanged == [heap |-> c.heap, cdata |-> c.cdata, data_by_id |-> c.data_by_id,
                      page_count |-> old_count]
    IN
    IF ~Truthy(url) /\ own.exc # "none"
    THEN unchanged @@ [exc |-> own.exc, val |-> None, calls |-> <<>>]
    ELSE LET full_url == FullUrl(IF Truthy(url) THEN url.u ELSE own.val, querystring)
             call == GatewayCall("GET", full_url, None, {200}, status)
         IN  IF status \notin call.valid
             THEN unchanged @@ [exc |-> "ShareaboutsApiException", val |-> None,
                                calls |-> <<call>>]
             ELSE LET count == parse_page_count(type, raw_data, old_count) IN
                  IF count.exc # "none"
                  THEN unchanged @@ [exc |-> count.exc, val |-> None, calls |-> <<call>>]
                  ELSE LET r == CollUpdate(type, c, raw_data[results_attr(type)]) IN
                       [heap |-> r.heap, cdata |-> r.cdata, data_by_id |-> r.data_by_id,
                        page_count |-> count.val, exc |-> "none", val |-> raw_data,
                        calls |-> <<call>>]

Statuses == {200, 500}

\* urlencode(options) of a call without options
NoOptions == <<>>

\* what a caller gets to see of a returned envelope
Digest(raw_data) ==
    IF raw_data = None THEN None
    ELSE [t |-> "envelope", metadata |-> raw_data["metadata"],
          frame |-> DOMAIN raw_data \ {"metadata"},
          size |-> Len(raw_data[CHOOSE k \in DOMAIN raw_data : k # "metadata"])]

\* the keys of a page not among seen, in the order of their first arrival
RECURSIVE FirstArrivals(_, _, _)
FirstArrivals(type, seen, items) ==
    IF items = <<>> THEN <<>>
    ELSE LET k == Head(items)[pk_attr(type)] IN
         IF \E j \in 1..Len(seen) : seen[j] = k
         THEN FirstArrivals(type, seen, Tail(items))
         ELSE <<k>> \o FirstArrivals(type, Append(seen, k), Tail(items))

Arrived(type, seen, r, raw_data) ==
    IF r.exc # "none" THEN seen
    ELSE seen \o FirstArrivals(type, seen, raw_data[WireFrame(type)])

UrlArgs == {None} \cup {PageCursor(i) : i \in 2..npages}

\* collection.fetch(url, **options), against a server
Fetch(url, server) ==
    \E status \in Statuses :
    \E raw_data \in Envelopes(server, ctype,
                               ServedPage(IF Truthy(url) THEN url.u ELSE <<>>)) :
        LET r == CollFetch(ctype, Coll, page_count, url, NoOptions, status, raw_data) IN
        /\ Len(r.heap) <= MaxObjs
        /\ heap' = r.heap
        /\ cdata' = r.cdata
        /\ data_by_id' = r.data_by_id
        /\ page_count' = r.page_count
        /\ calls' = r.calls
        /\ ret' = [op |-> "fetch", arg |-> url, exc |-> r.exc, val |-> Digest(r.val)]
        /\ arrivals' = Arrived(ctype, arrivals, r, raw_data)
        /\ UNCHANGED <<ctype, models, attached, gen, npages>>

(***************************************************************************)
(* fetch_all: a generator.  Calling it runs nothing; each next() runs the  *)
(* body up to the next yield, so one step requests one page and yields     *)
(* its envelope, or ends the iteration.                                    *)
(***************************************************************************)
GetEvent(full_url) == [e |-> "GET", url |-> full_url, page |-> 0]
YieldEvent(page_data) == [e |-> "yield", url |-> <<>>, page |-> page_data["metadata"].page]

\* page_data[self._metadata_attr].get('next')
PreviousCursor(page_data) == page_data["metadata"].previous

NextCursor(page_data) == page_data["metadata"].next

FetchAllStart(url) ==
    /\ gen' = [pc |-> "start", url |-> url, page_url |-> url, exc |-> "none",
               events |-> <<>>]
    /\ calls' = <<>>
    /\ ret' = [op |-> "fetch_all", arg |-> url, exc |-> "none", val |-> None]
    /\ UNCHANGED <<ctype, models, attached, heap, cdata, data_by_id, page_count,
                   npages, arrivals>>

FetchAllNext(server) ==
    /\ gen.pc \in {"start", "yielded"}
    /\ LET own == CollectionUrl(ctype)
           page_url == IF gen.pc = "start" /\ ~Truthy(gen.page_url) /\ own.exc = "none"
                       THEN Url(own.val) ELSE gen.page_url
       IN
       IF gen.pc = "start" /\ ~Truthy(gen.page_url) /\ own.exc # "none"
       THEN /\ gen' = [gen EXCEPT !.pc = "done", !.exc = own.exc]
            /\ calls' = <<>>
            /\ ret' = [op |-> "next", arg |-> None, exc |-> own.exc, val |-> None]
            /\ UNCHANGED <<heap, cdata, data_by_id, page_count, arrivals>>
       ELSE IF ~Truthy(page_url)
       THEN /\ gen' = [gen EXCEPT !.pc = "done"]
            /\ calls' = <<>>
            /\ ret' = [op |-> "next", arg |-> None, exc |-> "StopIteration", val |-> None]
            /\ UNCHANGED <<heap, cdata, data_by_id, page_count, arrivals>>
       ELSE \E status \in Statuses :
            \E raw_data \in Envelopes(server, ctype, ServedPage(page_url.u)) :
              LET r == CollFetch(ctype, Coll, page_count, page_url, NoOptions,
                                 status, raw_data)
                  requested == gen.events \o [j \in 1..Len(r.calls) |-> GetEvent(r.calls[j].url)]
              IN
              /\ Len(r.heap) <= MaxObjs
              /\ heap' = r.heap
              /\ cdata' = r.cdata
              /\ data_by_id' = r.data_by_id
              /\ page_count' = r.page_count
              /\ calls' = r.calls
              /\ ret' = [op |-> "next", arg |-> page_url, exc |-> r.exc,
                         val |-> Digest(r.val)]
              /\ arrivals' = Arrived(ctype, arrivals, r, raw_data)
              /\ gen' = IF r.exc # "none"
                        THEN [gen EXCEPT !.pc = "done", !.exc = r.exc, !.events = requested]
                        ELSE [gen EXCEPT !.pc = "yielded", !.page_url = NextCursor(r.val),
                                         !.events = Append(requested, YieldEvent(r.val))]
    /\ UNCHANGED <<ctype, models, attached, npages>>

(***************************************************************************)
(* SpecFetch: fetch and fetch_all against the server's chain of pages.     *)
(* SpecPage: fetch against a server that answers with any envelope.        *)
(***************************************************************************)
InitFetch == InitChain({"dataset", "place"}, 1..MaxPages)

NextFetch ==
    \/ \E url \in UrlArgs : Fetch(url, "chain")
    \/ \E url \in UrlArgs : FetchAllStart(url)
    \/ FetchAllNext("chain")

SpecFetch == InitFetch /\ [][NextFetch]_vars

InitPage == InitChain({"dataset", "place"}, {1})

NextPage == Fetch(None, "any")

SpecPage == InitPage /\ [][NextPage]_vars

(***************************************************************************)
(* C4.  fetch_all over the chain.                                          *)
(***************************************************************************)
IsPrefix(p, q) == Len(p) <= Len(q) /\ SubSeq(q, 1, Len(p)) = p

\* the page the generator was started at, and the URL it was started with
StartPage == IF Truthy(gen.url) THEN ServedPage(gen.url.u) ELSE 1
StartUrl == IF Truthy(gen.url) THEN gen.url.u ELSE CollectionUrl(ctype).val

\* C4: fetch_all requests the pages of the chain one by one and in chain
\* order, the first at the given or default URL and each later one at the
\* cursor the previous envelope named; every request is followed by the
\* yield of its envelope before the next request; there is never a request
\* past the last page, and a generator that ended without an error has
\* requested and yielded every page from its start to the end of the chain.
C4_FetchAll ==
    LET ev == gen.events
        left == npages - StartPage + 1
    IN  /\ \A j \in 1..Len(ev) :
              LET page == StartPage + ((j + 1) \div 2) - 1 IN
              IF j % 2 = 1
              THEN /\ ev[j].e = "GET"
                   /\ ServedPage(ev[j].url) = page
                   /\ IsPrefix(IF j = 1 THEN StartUrl ELSE PageCursor(page).u, ev[j].url)
              ELSE /\ ev[j].e = "yield"
                   /\ ev[j].page = page
        /\ Len(ev) <= 2 * left
        /\ gen.pc = "yielded" => Len(ev) % 2 = 0 /\ Len(ev) >= 2
        /\ (gen.pc = "done" /\ gen.exc = "none") => Len(ev) = 2 * left

\* a fetch_all from the default URL over a chain of three pages is consumed
C4_Witness ==
    /\ npages = 3
    /\ gen.pc = "done" /\ gen.exc = "none" /\ ~Truthy(gen.url)
    /\ Len(gen.events) = 6
    /\ ret.op = "next" /\ ret.exc = "StopIteration"

(***************************************************************************)
(* C5.  page_count after a fetch.                                          *)
(***************************************************************************)
\* the least count of pages of the given size that hold length items
PagesNeeded(length, size) ==
    CHOOSE c \in 0..length :
        /\ c * size >= length
        /\ \A b \in 0..length : b * size >= length => c <= b

ClaimedPageCount(envelope) ==
    LET metadata == envelope.metadata IN
    IF metadata.next # None /\ envelope.size > 0
    THEN PagesNeeded(metadata.length, envelope.size)
    ELSE IF metadata.previous = None THEN 1
    ELSE metadata.page

\* C5: after a successful fetch, page_count is ceil(length / page size) if
\* the envelope has a next cursor and a non-empty page, else 1 if it has
\* no previous cursor, else the envelope's own page number; under the
\* 'results' and under the 'features' framing alike.
C5_PageCount ==
    (ret.op = "fetch" /\ ret.exc = "none") =>
        /\ ret.val.frame = {WireFrame(ctype)}
        /\ page_count = ClaimedPageCount(ret.val)

\* a page of two features out of three, a next cursor: two pages
C5_Witness ==
    /\ ret.op = "fetch" /\ ret.exc = "none"
    /\ ctype = "place" /\ ret.val.frame = {"features"}
    /\ ret.val.metadata.next # None
    /\ ret.val.size = 2 /\ ret.val.metadata.length = 3
    /\ page_count = 2

(***************************************************************************)
(* C10.  The order of the sequence under fetch.                            *)
(***************************************************************************)
MemberKeys == [i \in 1..Len(cdata) |-> id_of(ctype, heap[cdata[i]])]

\* the sequence only grows at its end, and a fetch grows it by the keys
\* that arrived for the first time
C10_FetchStep ==
    /\ IsPrefix(cdata, cdata')
    /\ IsPrefix(arrivals, arrivals')
    /\ Len(cdata') - Len(cdata) = Len(arrivals') - Len(arrivals)
    /\ \A i \in 1..Len(cdata) : id_of(ctype, heap'[cdata[i]]) = id_of(ctype, heap[cdata[i]])

\* C10: under fetch and fetch_all the sequence holds one Model per primary
\* key, in the order in which the keys first arrived; a fetch leaves the
\* Models already held where they are and appends the new ones.
C10_ArrivalOrder == [](MemberKeys = arrivals) /\ [][C10_FetchStep]_vars

\* both keys are held, the second one first, and the page just fetched had
\* two items, after a fetch_all that was consumed
C10_Witness ==
    /\ ret.op = "fetch" /\ ret.exc = "none" /\ ret.val.size = 2
    /\ Len(cdata) = 2
    /\ arrivals[1] = KeyOf(ctype, 2)
    /\ gen.pc = "done" /\ gen.exc = "none" /\ Len(gen.events) >= 4

(***************************************************************************)
(* serialize, save, Model.fetch, create, __setitem__.                      *)
(***************************************************************************)
\* serialize(): self._data itself; a dataset first stores the serialized
\* named submission sets (none have been asked for) under submission_sets
serialize(type, d) ==
    IF type = "dataset"
    THEN DictUpdate(d, [submission_sets |-> Map(EmptyDict)])
    ELSE d

\* the attribute `name` a caller set, for the server to echo
NameOf(type, d) ==
    LET a == IF type = "place"
             THEN IF "properties" \in DOMAIN d /\ d["properties"].t = "map"
                  THEN d["properties"].d ELSE EmptyDict
             ELSE d
    IN  IF "name" \in DOMAIN a THEN a["name"] ELSE Txt("a")

\* a primary key the client holds nowhere: the server's to assign on 201
UsedKeys(type, h, m) ==
    DOMAIN m \cup {id_of(type, h[r]) : r \in 1..Len(h)}

AssignedKey(type, h, m) ==
    KeyOf(type, CHOOSE n \in 1..(2 * Len(h) + 1) :
                  /\ KeyOf(type, n) \notin UsedKeys(type, h, m)
                  /\ \A l \in 1..(n - 1) : KeyOf(type, l) \in UsedKeys(type, h, m))

\* save(), the gateway answering with a status and, if that is valid,
\* the resource under key assigned (unless the body names its key)
ModelSave(type, d, collection_url, status, assigned) ==
    LET send_data == DictWithout(serialize(type, d), excluded_fields(type))
        keyed == has_key(type, send_data)
        url == IF keyed.exc = "none" /\ keyed.val
               THEN ModelUrl(type, send_data, TRUE, collection_url)
               ELSE collection_url
        call == IF keyed.exc = "none" /\ keyed.val
                THEN GatewayCall("PUT", url.val, send_data, {200}, status)
                ELSE GatewayCall("POST", url.val, send_data, {201}, status)
        key == IF pk_attr(type) \in DOMAIN send_data
               THEN send_data[pk_attr(type)] ELSE assigned
    IN  IF keyed.exc # "none"
        THEN [data |-> send_data, exc |-> keyed.exc, calls |-> <<>>]
        ELSE IF url.exc # "none"
        THEN [data |-> send_data, exc |-> url.exc, calls |-> <<>>]
        ELSE IF status \notin call.valid
        THEN [data |-> send_data, exc |-> "ShareaboutsApiException", calls |-> <<call>>]
        ELSE [data |-> DictUpdate(send_data, ServerRecord(type, key, NameOf(type, send_data))),
              exc |-> "none", calls |-> <<call>>]

WriteStatuses == {200, 201}

\* inst.save() on an instance the collection made
Save(ref) ==
    \E status \in WriteStatuses :
        LET r == ModelSave(ctype, heap[ref], CollectionUrl(ctype), status,
                           AssignedKey(ctype, heap, data_by_id))
        IN  /\ heap' = [heap EXCEPT ![ref] = r.data]
            /\ calls' = r.calls
            /\ ret' = [op |-> "save", arg |-> ref, exc |-> r.exc, val |-> None]
            /\ UNCHANGED <<ctype, models, attached, cdata, data_by_id, page_count,
                           gen, npages, arrivals>>

\* inst.fetch() on an instance the collection made: the server answers
\* for the resource of the instance's key
ModelFetch(ref, v) ==
    \E status \in Statuses :
        LET d == heap[ref]
            url == ModelUrl(ctype, d, TRUE, CollectionUrl(ctype))
            call == GatewayCall("GET", url.val \o <<"?">> \o NoOptions, None, {200}, status)
            key == ModelKey(ctype, d)
        IN  /\ key.exc = "none" /\ key.val # None
            /\ IF url.exc # "none"
               THEN /\ heap' = heap
                    /\ calls' = <<>>
                    /\ ret' = [op |-> "model.fetch", arg |-> ref, exc |-> url.exc, val |-> None]
               ELSE IF status \notin call.valid
               THEN /\ heap' = heap
                    /\ calls' = <<call>>
                    /\ ret' = [op |-> "model.fetch", arg |-> ref,
                               exc |-> "ShareaboutsApiException", val |-> None]
               ELSE /\ heap' = [heap EXCEPT ![ref] = ServerRecord(ctype, key.val, v)]
                    /\ calls' = <<call>>
                    /\ ret' = [op |-> "model.fetch", arg |-> ref, exc |-> "none", val |-> ref]
            /\ UNCHANGED <<ctype, models, attached, cdata, data_by_id, page_count,
                           gen, npages, arrivals>>

\* add(inst) with inst a Model, not a dict: _make_inst(inst) needs a mapping
\* for **inst_data and a Model has no keys(); if the key is held already,
\* dict.update(inst) finds no callable keys either and, for the classes
\* without __getattr__, takes the Model's keys for (key, value) pairs
AddModelError(type, c, d) ==
    LET inst_id == ModelKey(type, d) IN
    IF inst_id.exc # "none" THEN inst_id.exc
    ELSE IF CollGet(c, inst_id.val) = 0 THEN "TypeError"
    ELSE IF type \in {"dataset", "place"} THEN "TypeError"
    ELSE "ValueError"

\* create(inst_data): _make_inst, save, add(inst).  The instance is lost
\* to the caller whenever create raises.
Create(inst_data) ==
    \E status \in WriteStatuses :
        LET r == ModelSave(ctype, inst_data, CollectionUrl(ctype), status,
                           AssignedKey(ctype, heap, data_by_id))
        IN  /\ calls' = r.calls
            /\ ret' = [op |-> "create", arg |-> inst_data,
                       exc |-> IF r.exc # "none" THEN r.exc
                               ELSE AddModelError(ctype, Coll, r.data),
                       val |-> None]
            /\ UNCHANGED <<ctype, models, attached, heap, cdata, data_by_id,
                           page_count, gen, npages, arrivals>>

\* collection[index] = value, value an instance the caller holds
SetItem(index, value) ==
    /\ index \in 1..Len(cdata)
    /\ value \in 1..Len(heap)
    /\ cdata' = [cdata EXCEPT ![index] = value]
    /\ calls' = <<>>
    /\ ret' = [op |-> "setitem", arg |-> index, exc |-> "none", val |-> None]
    /\ UNCHANGED <<ctype, models, attached, heap, data_by_id, page_count,
                   gen, npages, arrivals>>

(***************************************************************************)
(* Spec: every operation of the collection and of its Models, on a server  *)
(* with a single page.                                                     *)
(***************************************************************************)
SmallItems(type) == {Keyed(type, KeyOf(type, 1), Txt("a")), Fields(type, Txt("a"))}

Init == InitChain(Types, {1})

Next ==
    \/ \E inst_data \in SmallItems(ctype) : Add(inst_data)
    \/ \E inst_data \in SmallItems(ctype) : Update(<<inst_data>>)
    \/ Fetch(None, "single")
    \/ \E inst_data \in SmallItems(ctype) : Create(inst_data)
    \/ \E index \in 1..MaxObjs, value \in 1..MaxObjs : SetItem(index, value)
    \/ \E ref \in 1..Len(heap) : Save(ref)
    \/ \E ref \in 1..Len(heap) : ModelFetch(ref, Txt("a"))

Spec == Init /\ [][Next]_vars

\* C2: every member of the sequence that holds a primary key is the
\* instance the identity map holds under that key, and no two members
\* hold the same primary key.
C2_IdentityMap ==
    \A i \in 1..Len(cdata) :
        LET k == id_of(ctype, heap[cdata[i]]) IN
        k # None =>
            /\ k \in DOMAIN data_by_id
            /\ data_by_id[k] = cdata[i]
            /\ \A j \in 1..Len(cdata) :
                  cdata[j] # cdata[i] => id_of(ctype, heap[cdata[j]]) # k

\* C8: create, its POST answered with 201, is one POST to the collection's
\* url and returns a Model that is the new last member of the sequence,
\* holds the key the server assigned, and is the identity map's instance
\* for that key.
C8_CreateStep ==
    (/\ ret'.op = "create"
     /\ Len(calls') = 1
     /\ calls'[1].method = "POST"
     /\ calls'[1].status = 201) =>
        /\ calls'[1].url = CollectionUrl(ctype).val
        /\ ret'.exc = "none"
        /\ Len(cdata') = Len(cdata) + 1
        /\ ret'.val = cdata'[Len(cdata')]
        /\ LET k == id_of(ctype, heap'[ret'.val]) IN
           /\ k = id_of(ctype, ServerRecord(ctype, k, Txt("a")))
           /\ k # None => k \in DOMAIN data_by_id' /\ data_by_id'[k] = ret'.val

C8_Create == [][C8_CreateStep]_vars

(***************************************************************************)
(* SpecSave: save() and fetch() on the one Model a collection holds.       *)
(***************************************************************************)
InitSave == InitChain(Types, {1})

\* local attributes that hold server-managed fields, a place's under
\* 'properties' as its GeoJSON form has them
Managed == [created_datetime |-> Txt("t"), dataset |-> Txt("ds")]

ManagedItems(type) ==
    {IF type = "place"
     THEN [d EXCEPT !["properties"] = Map(DictUpdate(d["properties"].d, Managed))]
     ELSE DictUpdate(d, Managed) : d \in LocalItems(type)}

NextSave ==
    \/ \E inst_data \in LocalItems(ctype) \cup ManagedItems(ctype) :
          Len(heap) = 0 /\ Add(inst_data)
    \/ \E ref \in 1..Len(heap) : Save(ref)
    \/ \E ref \in 1..Len(heap), v \in Names : ModelFetch(ref, v)

SpecSave == InitSave /\ [][NextSave]_vars

\* C3: save() issues exactly one gateway call, chosen by the presence of
\* the primary key when save() is called: a PUT to the Model's own url()
\* valid on 200 with a key, a POST to the collection's url() valid on 201
\* without one.
C3_SaveStep ==
    ret'.op = "save" =>
        LET d == heap[ret'.arg] IN
        /\ Len(calls') = 1
        /\ IF pk_attr(ctype) \in DOMAIN d
           THEN /\ calls'[1].method = "PUT"
                /\ calls'[1].url = ModelUrl(ctype, d, TRUE, CollectionUrl(ctype)).val
                /\ calls'[1].valid = {200}
           ELSE /\ calls'[1].method = "POST"
                /\ calls'[1].url = CollectionUrl(ctype).val
                /\ calls'[1].valid = {201}

C3_SaveRouting == [][C3_SaveStep]_vars

\* C11: save() removes no attribute of the Model: when the gateway answers
\* with a status outside the valid ones, save() raises the API error and
\* the attributes are what they were; when it succeeds, they are the
\* previous attributes with the response merged over them.
C11_SaveStep ==
    ret'.op = "save" =>
        LET d == heap[ret'.arg]
            after == heap'[ret'.arg]
        IN  /\ ret'.exc = "ShareaboutsApiException" => after = d
            /\ ret'.exc = "none" =>
                  after = DictUpdate(d, ServerRecord(ctype, id_of(ctype, after),
                                                     NameOf(ctype, d)))

C11_SaveKeepsAttributes == [][C11_SaveStep]_vars

\* C9: the body save() hands to the gateway holds none of the excluded
\* fields of its type, and a place's body holds none under 'properties'.
C9_ExcludedFields ==
    (ret.op = "save" /\ Len(calls) = 1) =>
        LET body == calls[1].body IN
        /\ DOMAIN body \cap excluded_fields(ctype) = {}
        /\ (ctype = "place" /\ "properties" \in DOMAIN body) =>
              DOMAIN body["properties"].d \cap excluded_fields(ctype) = {}

(***************************************************************************)
(* SpecPlace: the mapping interface of one place Model.  The dictionary    *)
(* interface is ShareaboutsModel's, with __getitem__, __setitem__ and get  *)
(* replaced by their geojson_method and __iter__ by the place's own;       *)
(* `key in place` iterates.                                                *)
(***************************************************************************)
\* model[key] = value
ModelSetItem(type, d, key, value) ==
    IF type # "place" \/ key \in GeoKeys
    THEN [exc |-> "none", data |-> DictUpdate(d, key :> value)]
    ELSE IF "properties" \notin DOMAIN d THEN [exc |-> "KeyError", data |-> d]
    ELSE IF d["properties"].t # "map" THEN [exc |-> "TypeError", data |-> d]
    ELSE [exc |-> "none",
          data |-> [d EXCEPT !["properties"] =
                       Map(DictUpdate(d["properties"].d, key :> value))]]

\* del model[key]: ShareaboutsModel.__delitem__, for a place too
ModelDelItem(type, d, key) ==
    IF key \in DOMAIN d
    THEN [exc |-> "none", data |-> DictWithout(d, {key})]
    ELSE [exc |-> "KeyError", data |-> d]

\* the orders in which a dict may iterate over the keys ks
Orders(ks) ==
    {order \in [1..Cardinality(ks) -> ks] :
        \A i, j \in 1..Cardinality(ks) : i # j => order[i] # order[j]}

\* list(model): the lists that iterating to the end may give, or the
\* exception that ends it
ModelIter(type, d) ==
    IF type # "place" THEN {Ok(order) : order \in Orders(DOMAIN d)}
    ELSE IF "properties" \notin DOMAIN d THEN {Raise("KeyError")}
    ELSE IF d["properties"].t # "map" THEN {Raise("TypeError")}
    ELSE {Ok(top \o nested) :
            top \in Orders(DOMAIN d \cap GeoKeys),
            nested \in Orders(DOMAIN d["properties"].d \ GeoKeys)}

PlaceKeys == {"geometry", "id", "name"}
PlaceValues == {Txt("a"), Txt("b")}

\* places as add makes them: GeoJSON features, or what the caller gave
InitPlace ==
    /\ ctype = "place"
    /\ npages = 1
    /\ \E place \in {[properties |-> Map(EmptyDict)],
                     [id |-> Txt("a"), properties |-> Map([id |-> Txt("b")])],
                     [id |-> Txt("a")]} :
          models = [ChainModels EXCEPT !["place"] = place]
    /\ attached = [type \in Types |-> TRUE]
    /\ InitCollection

PlaceGetItem(key) ==
    LET r == ModelGetItem("place", models["place"], key) IN
    /\ ret' = [op |-> "place.getitem", arg |-> [key |-> key], exc |-> r.exc,
               val |-> r.val]
    /\ UNCHANGED <<ctype, models, attached, heap, cdata, data_by_id,
                   page_count, calls, gen, npages, arrivals>>

PlaceGet(key) ==
    LET r == ModelGet("place", models["place"], key) IN
    /\ ret' = [op |-> "place.get", arg |-> [key |-> key], exc |-> r.exc,
               val |-> r.val]
    /\ UNCHANGED <<ctype, models, attached, heap, cdata, data_by_id,
                   page_count, calls, gen, npages, arrivals>>

PlaceSetItem(key, value) ==
    LET r == ModelSetItem("place", models["place"], key, value) IN
    /\ models' = [models EXCEPT !["place"] = r.data]
    /\ ret' = [op |-> "place.setitem", arg |-> [key |-> key, value |-> value],
               exc |-> r.exc, val |-> None]
    /\ UNCHANGED <<ctype, attached, heap, cdata, data_by_id, page_count,
                   calls, gen, npages, arrivals>>

PlaceDelItem(key) ==
    LET r == ModelDelItem("place", models["place"], key) IN
    /\ models' = [models EXCEPT !["place"] = r.data]
    /\ ret' = [op |-> "place.delitem", arg |-> [key |-> key], exc |-> r.exc,
               val |-> None]
    /\ UNCHANGED <<ctype, attached, heap, cdata, data_by_id, page_count,
                   calls, gen, npages, arrivals>>

PlaceContains(key) ==
    LET r == ModelContains("place", models["place"], key) IN
    /\ ret' = [op |-> "place.contains", arg |-> [key |-> key], exc |-> r.exc,
               val |-> r.val]
    /\ UNCHANGED <<ctype, models, attached, heap, cdata, data_by_id,
                   page_count, calls, gen, npages, arrivals>>

PlaceIter ==
    \E r \in ModelIter("place", models["place"]) :
        /\ ret' = [op |-> "place.iter", arg |-> None, exc |-> r.exc, val |-> r.val]
        /\ UNCHANGED <<ctype, models, attached, heap, cdata, data_by_id,
                       page_count, calls, gen, npages, arrivals>>

NextPlace ==
    \/ \E key \in PlaceKeys : PlaceGetItem(key)
    \/ \E key \in PlaceKeys : PlaceGet(key)
    \/ \E key \in PlaceKeys, value \in PlaceValues : PlaceSetItem(key, value)
    \/ \E key \in PlaceKeys : PlaceDelItem(key)
    \/ \E key \in PlaceKeys : PlaceContains(key)
    \/ PlaceIter

SpecPlace == InitPlace /\ [][NextPlace]_vars

\* the storage the routing names for a key: the top level for 'geometry'
\* and 'id', the 'properties' mapping for every other key
RoutedStore(d, key) == IF key \in GeoKeys THEN d ELSE d["properties"].d

RoutedWrite(d, key, store) ==
    IF key \in GeoKeys THEN store ELSE [d EXCEPT !["properties"] = Map(store)]

\* C7: on a place that is a GeoJSON feature, every mapping operation reads
\* or writes the storage its key is routed to; a key that is held there
\* can be read, and can be deleted and is then no longer contained;
\* iteration gives the top-level 'geometry' and 'id' first and then the
\* other keys of 'properties'.
C7_MappingStep ==
    LET d == models["place"]
        after == models'["place"]
        op == ret'.op
    IN  "properties" \in DOMAIN d =>
        /\ op = "place.setitem" =>
              /\ ret'.exc = "none"
              /\ after = RoutedWrite(d, ret'.arg.key,
                           DictUpdate(RoutedStore(d, ret'.arg.key),
                                      ret'.arg.key :> ret'.arg.value))
        /\ op = "place.contains" =>
              /\ ret'.exc = "none"
              /\ ret'.val = (ret'.arg.key \in DOMAIN RoutedStore(d, ret'.arg.key))
        /\ (/\ op \in {"place.getitem", "place.get"}
            /\ ret'.arg.key \in DOMAIN RoutedStore(d, ret'.arg.key)) =>
              /\ ret'.exc = "none"
              /\ ret'.val = RoutedStore(d, ret'.arg.key)[ret'.arg.key]
        /\ (/\ op = "place.delitem"
            /\ ret'.arg.key \in DOMAIN RoutedStore(d, ret'.arg.key)) =>
              /\ ret'.exc = "none"
              /\ after = RoutedWrite(d, ret'.arg.key,
                           DictWithout(RoutedStore(d, ret'.arg.key), {ret'.arg.key}))
              /\ ModelContains("place", after, ret'.arg.key).exc = "none"
              /\ ~ModelContains("place", after, ret'.arg.key).val
        /\ op = "place.iter" =>
              /\ ret'.exc = "none"
              /\ \E top \in Orders(DOMAIN d \cap GeoKeys),
                    nested \in Orders(DOMAIN d["properties"].d \ GeoKeys) :
                    ret'.val = top \o nested

C7_GeoJsonRouting == [][C7_MappingStep]_vars

(***************************************************************************)
(* SpecUrl: url() over the hierarchy.  The Models of the chain are drawn   *)
(* from the shapes the client can hold: made by account()/dataset()/add()  *)
(* from a key alone, fetched from the server (with a url), or made from    *)
(* nothing.                                                                *)
(***************************************************************************)
UrlAccounts ==
    {EmptyDict, [username |-> Txt("alice")],
     [username |-> Txt("alice"), url |-> Txt("account-url")]}
UrlDatasets ==
    {EmptyDict, [slug |-> Txt("foo")],
     [slug |-> Txt("foo"), url |-> Txt("dataset-url")]}
UrlPlaces ==
    {EmptyDict, [id |-> Num(42)], [id |-> Txt("42")],
     [id |-> Num(42), properties |-> Map(EmptyDict)],
     [id |-> Txt("42"), properties |-> Map(EmptyDict)],
     [properties |-> Map(EmptyDict)],
     [id |-> Num(42), properties |-> Map([url |-> Txt("place-url")])],
     [id |-> Txt("42"), url |-> Txt("top-url"), properties |-> Map(EmptyDict)]}
UrlSubmissions ==
    {EmptyDict, [id |-> Num(7)], [id |-> Txt("7")],
     [id |-> Num(7), url |-> Txt("submission-url")]}

InitUrl ==
    /\ ctype = "account"
    /\ models \in [account : UrlAccounts, dataset : UrlDatasets,
                    place : UrlPlaces, submission : UrlSubmissions]
    /\ attached \in [Types -> BOOLEAN]
    /\ npages = 1
    /\ InitCollection

\* model.url() on the chain's Model of a type
CallUrl(type) ==
    /\ ret' = [op |-> "url", arg |-> type, exc |-> ChainUrl(type).exc,
               val |-> ChainUrl(type).val]
    /\ UNCHANGED <<ctype, models, attached, heap, cdata, data_by_id,
                   page_count, calls, gen, npages, arrivals>>

\* collection.url() on the collection of the Models of a type
CallCollectionUrl(type) ==
    /\ ret' = [op |-> "collection.url", arg |-> type,
               exc |-> CollectionUrl(type).exc, val |-> CollectionUrl(type).val]
    /\ UNCHANGED <<ctype, models, attached, heap, cdata, data_by_id,
                   page_count, calls, gen, npages, arrivals>>

NextUrl ==
    \/ \E type \in Types : CallUrl(type)
    \/ \E type \in Types : CallCollectionUrl(type)

SpecUrl == InitUrl /\ [][NextUrl]_vars

(***************************************************************************)
(* C6.  url() as the specification states it, written from the attribute   *)
(* view of a Model, not from the code: the attributes of a place are its   *)
(* top level geometry and id and the entries of its properties.            *)
(***************************************************************************)
Attributes(type, d) ==
    IF type # "place" THEN d
    ELSE LET top == [k \in DOMAIN d \cap GeoKeys |-> d[k]]
             props == IF "properties" \in DOMAIN d /\ d["properties"].t = "map"
                      THEN DictWithout(d["properties"].d, GeoKeys)
                      ELSE EmptyDict
         IN DictUpdate(props, top)

ClaimedModelUrl(type, d, hasCollection, collection_url) ==
    LET a == Attributes(type, d) IN
    IF "url" \in DOMAIN a THEN Ok(<<a["url"].s>>)
    ELSE IF hasCollection /\ pk_attr(type) \in DOMAIN a
    THEN IF collection_url.exc # "none" THEN collection_url
         ELSE IF EndsWithSlash(collection_url.val)
              THEN Ok(collection_url.val \o <<KeyText(a[pk_attr(type)])>>)
              ELSE Ok(collection_url.val \o <<"/", KeyText(a[pk_attr(type)])>>)
    ELSE Raise("ShareaboutsApiException")

ClaimedAccountUrl ==
    ClaimedModelUrl("account", models["account"], attached["account"], Ok(uri_root))
ClaimedDatasetUrl ==
    ClaimedModelUrl("dataset", models["dataset"], attached["dataset"],
                    UrlPlus(ClaimedAccountUrl, <<"/", "datasets">>))
ClaimedPlaceSetUrl == UrlPlus(ClaimedDatasetUrl, <<"/", "places">>)
ClaimedPlaceUrl ==
    ClaimedModelUrl("place", models["place"], attached["place"], ClaimedPlaceSetUrl)
ClaimedSubmissionUrl ==
    ClaimedModelUrl("submission", models["submission"], attached["submission"],
                    UrlPlus(ClaimedPlaceUrl, <<"/", "comments">>))
ClaimedUrl(type) ==
    CASE type = "account" -> ClaimedAccountUrl
      [] type = "dataset" -> ClaimedDatasetUrl
      [] type = "place" -> ClaimedPlaceUrl
      [] type = "submission" -> ClaimedSubmissionUrl

\* C6: every url() call returns the explicit url attribute, else the
\* collection's URL and the primary key joined by one "/", else fails with
\* the missing-URL API error; the places collection of alice/foo is at
\* <root>alice/datasets/foo/places and its Place {id: 42} at .../places/42.
C6_UrlDerivation ==
    /\ ret.op = "url" =>
          /\ ret.exc = ClaimedUrl(ret.arg).exc
          /\ ret.exc = "none" => ret.val = ClaimedUrl(ret.arg).val
    /\ ( /\ ret.op = "url" /\ ret.arg = "place"
         /\ models["account"] = [username |-> Txt("alice")]
         /\ models["dataset"] = [slug |-> Txt("foo")]
         /\ models["place"] = [id |-> Num(42)]
         /\ \A type \in Types : attached[type] )
        => /\ ret.exc = "none"
           /\ ret.val = <<"root", "/", "alice", "/", "datasets", "/", "foo",
                          "/", "places", "/", "42">>

=============================================================================
